---- MODULE Spec2Model ----
(***************************************************************************)
(* InsightForge BI assistant (src/app.py): the statistics index built by   *)
(* load_and_process_data, the keyword retriever custom_retriever, and the  *)
(* Streamlit script that drives them (chat, dashboard, evaluation pages).  *)
(*                                                                         *)
(* A Python str is a tuple of one-character strings, so that substring     *)
(* search, lower-casing, ordering and number formatting are computed       *)
(* character by character.  A Python float is an exact rational            *)
(* [num, den] (den = 0 is NaN); sales amounts are whole cents, so that a   *)
(* sum of sales has den = 100.  Binary rounding error of float addition    *)
(* is not modelled.  A Python dict is the tuple of its (key, value) pairs  *)
(* in insertion order.                                                     *)
(***************************************************************************)
EXTENDS Integers, Sequences, FiniteSets, TLC

(***************************************************************************)
(* Python str                                                              *)
(***************************************************************************)
Uppercase == <<"A","B","C","D","E","F","G","H","I","J","K","L","M",
               "N","O","P","Q","R","S","T","U","V","W","X","Y","Z">>
Lowercase == <<"a","b","c","d","e","f","g","h","i","j","k","l","m",
               "n","o","p","q","r","s","t","u","v","w","x","y","z">>
DigitChars == <<"0","1","2","3","4","5","6","7","8","9">>

\* The characters that occur in the model, in code point order.
CodeOrder == <<"\n", " ", "$", "'", ",", "-", ".", "/">> \o DigitChars
             \o <<":", "?">> \o Uppercase \o Lowercase \o <<"{", "}">>

Ord(c) == CHOOSE i \in 1..Len(CodeOrder) : CodeOrder[i] = c

\* str.lower(): upper-case letters are replaced, everything else is kept.
lower_char(c) ==
    IF \E k \in 1..Len(Uppercase) : Uppercase[k] = c
    THEN Lowercase[CHOOSE k \in 1..Len(Uppercase) : Uppercase[k] = c]
    ELSE c

lower(s) == [i \in 1..Len(s) |-> lower_char(s[i])]

\* `word in text` on two strs: word occurs as a contiguous substring.
str_in(word, text) ==
    \E i \in 0..(Len(text) - Len(word)) :
        SubSeq(text, i + 1, i + Len(word)) = word

\* a < b on two strs: code point order at the first difference, a proper
\* prefix comes first.
str_lt(a, b) ==
    \E i \in 1..(Len(b)) :
        /\ i <= Len(a) + 1
        /\ \A j \in 1..(i - 1) : a[j] = b[j]
        /\ \/ i = Len(a) + 1
           \/ Ord(a[i]) < Ord(b[i])

RECURSIVE join(_, _)
\* sep.join(parts)
join(sep, parts) ==
    IF Len(parts) = 0 THEN <<>>
    ELSE IF Len(parts) = 1 THEN parts[1]
    ELSE parts[1] \o sep \o join(sep, Tail(parts))

\* repr() of a str without quote characters.
str_repr(s) == <<"'">> \o s \o <<"'">>

(***************************************************************************)
(* Python numbers and their formatting                                     *)
(***************************************************************************)
Abs(n) == IF n < 0 THEN -n ELSE n

RECURSIVE Pow10(_)
Pow10(k) == IF k = 0 THEN 1 ELSE 10 * Pow10(k - 1)

RECURSIVE nat_digits(_)
\* decimal digits of a natural number
nat_digits(n) ==
    IF n < 10 THEN <<DigitChars[n + 1]>>
    ELSE nat_digits(n \div 10) \o <<DigitChars[(n % 10) + 1]>>

RECURSIVE zero_pad(_, _)
zero_pad(ds, width) == IF Len(ds) >= width THEN ds ELSE zero_pad(<<"0">> \o ds, width)

RECURSIVE group_thousands(_)
\* the "," option of the format specification
group_thousands(ds) ==
    IF Len(ds) <= 3 THEN ds
    ELSE group_thousands(SubSeq(ds, 1, Len(ds) - 3)) \o <<",">>
         \o SubSeq(ds, Len(ds) - 2, Len(ds))

\* a float is [num, den]; den = 0 is NaN
Float(num, den) == [num |-> num, den |-> den]
NaN == Float(0, 0)

\* num / den rounded to an integer, ties to even (num >= 0, den > 0)
round_half_even(num, den) ==
    LET q == num \div den
        r == num % den
    IN  IF 2 * r > den THEN q + 1
        ELSE IF 2 * r < den THEN q
        ELSE IF q % 2 = 0 THEN q ELSE q + 1

\* format(x, ".{decimals}f") and, with comma, format(x, ",.{decimals}f")
format_fixed(x, decimals, comma) ==
    IF x.den = 0 THEN <<"n","a","n">>
    ELSE LET scaled == round_half_even(Abs(x.num) * Pow10(decimals), x.den)
             ip     == nat_digits(scaled \div Pow10(decimals))
             fp     == zero_pad(nat_digits(scaled % Pow10(decimals)), decimals)
         IN  (IF x.num < 0 THEN <<"-">> ELSE <<>>)
             \o (IF comma THEN group_thousands(ip) ELSE ip)
             \o (IF decimals > 0 THEN <<".">> \o fp ELSE <<>>)

\* int(v): truncation toward zero
int_trunc(x) ==
    IF x.num < 0 THEN -(Abs(x.num) \div x.den) ELSE x.num \div x.den

\* repr() of an int
int_repr(n) == (IF n < 0 THEN <<"-">> ELSE <<>>) \o nat_digits(Abs(n))

\* repr() of a float holding a whole number of cents (den = 100): the
\* shortest decimal that reads back, 10.0, 10.5, 10.25
float_repr(x) ==
    LET c == Abs(x.num)
        f == c % 100
    IN  (IF x.num < 0 THEN <<"-">> ELSE <<>>)
        \o nat_digits(c \div 100) \o <<".">>
        \o (IF f % 10 = 0 THEN <<DigitChars[(f \div 10) + 1]>>
            ELSE zero_pad(nat_digits(f), 2))

(***************************************************************************)
(* Python dict: the tuple of its (key, value) pairs in insertion order     *)
(***************************************************************************)
dict_has(d, k) == \E i \in 1..Len(d) : d[i][1] = k

\* d[k] = v: a present key keeps its position, a new key goes last
dict_set(d, k, v) ==
    IF dict_has(d, k)
    THEN [i \in 1..Len(d) |-> IF d[i][1] = k THEN <<k, v>> ELSE d[i]]
    ELSE Append(d, <<k, v>>)

RECURSIVE dict_from_items(_)
\* dict(items) and a dict comprehension over items
dict_from_items(items) ==
    IF Len(items) = 0 THEN <<>>
    ELSE LET last == items[Len(items)]
         IN  dict_set(dict_from_items(SubSeq(items, 1, Len(items) - 1)),
                      last[1], last[2])

\* items[:n], the slice taken from the wrong end
last_n_from_front(items, n) ==
    IF Len(items) <= n THEN items ELSE SubSeq(items, 1, n)

\* items[-n:]
last_n(items, n) ==
    IF Len(items) <= n THEN items
    ELSE SubSeq(items, Len(items) - n + 1, Len(items))

\* repr() of a dict with str keys and float values
dict_repr_float(d) ==
    <<"{">> \o join(<<","," ">>, [i \in 1..Len(d) |->
                          str_repr(d[i][1]) \o <<":"," ">> \o float_repr(d[i][2])])
    \o <<"}">>

\* repr() of a dict with str keys and int values
dict_repr_int(d) ==
    <<"{">> \o join(<<","," ">>, [i \in 1..Len(d) |->
                          str_repr(d[i][1]) \o <<":"," ">> \o int_repr(d[i][2])])
    \o <<"}">>

(***************************************************************************)
(* sales_data.csv as read by pd.read_csv: a tuple of rows.  A row holds    *)
(* the Date cell as text, Product and Region as text, Sales in whole       *)
(* cents, Customer_Age as an integer and Customer_Satisfaction in          *)
(* hundredths.                                                             *)
(***************************************************************************)
Row(date, product, region, sales, age, satisfaction) ==
    [Date |-> date, Product |-> product, Region |-> region, Sales |-> sales,
     Customer_Age |-> age, Customer_Satisfaction |-> satisfaction]

is_digit(c) == \E k \in 1..10 : DigitChars[k] = c
digit_value(c) == (CHOOSE k \in 1..10 : DigitChars[k] = c) - 1

RECURSIVE parse_nat(_)
parse_nat(s) ==
    IF Len(s) = 0 THEN 0
    ELSE 10 * parse_nat(SubSeq(s, 1, Len(s) - 1)) + digit_value(s[Len(s)])

days_in_month(y, m) ==
    IF m = 2
    THEN (IF (y % 4 = 0 /\ y % 100 # 0) \/ y % 400 = 0 THEN 29 ELSE 28)
    ELSE IF m \in {4, 6, 9, 11} THEN 30 ELSE 31

\* whether pd.to_datetime parses the cell; the cells of the model are either
\* ISO dates YYYY-MM-DD or text that is no date
date_parses(s) ==
    /\ Len(s) = 10
    /\ s[5] = "-" /\ s[8] = "-"
    /\ \A i \in {1, 2, 3, 4, 6, 7, 9, 10} : is_digit(s[i])
    /\ LET y == parse_nat(SubSeq(s, 1, 4))
           m == parse_nat(SubSeq(s, 6, 7))
           d == parse_nat(SubSeq(s, 9, 10))
       IN  m \in 1..12 /\ d \in 1..days_in_month(y, m)

\* pd.to_datetime on one parseable cell
to_datetime(s) ==
    [year  |-> parse_nat(SubSeq(s, 1, 4)),
     month |-> parse_nat(SubSeq(s, 6, 7)),
     day   |-> parse_nat(SubSeq(s, 9, 10))]

\* Timestamp.to_period('M'): year and month, the day is dropped
to_period_M(ts) == <<ts.year, ts.month>>

\* str() of a monthly Period: YYYY-MM
period_str(p) ==
    zero_pad(nat_digits(p[1]), 4) \o <<"-">> \o zero_pad(nat_digits(p[2]), 2)

period_lt(p, q) == p[1] < q[1] \/ (p[1] = q[1] /\ p[2] < q[2])

RECURSIVE sorted_strs(_)
\* the str keys of a groupby, sorted (groupby sorts its keys by default)
sorted_strs(S) ==
    IF S = {} THEN <<>>
    ELSE LET m == CHOOSE k \in S : \A j \in S \ {k} : str_lt(k, j)
         IN  <<m>> \o sorted_strs(S \ {m})

RECURSIVE sorted_periods(_)
\* the Period keys of a groupby, sorted
sorted_periods(S) ==
    IF S = {} THEN <<>>
    ELSE LET m == CHOOSE k \in S : \A j \in S \ {k} : period_lt(k, j)
         IN  <<m>> \o sorted_periods(S \ {m})

RECURSIVE sum_where(_, _, _)
\* the sum of column col over the rows whose position is in the set sel
sum_where(df, col, sel) ==
    IF sel = {} THEN 0
    ELSE LET i == CHOOSE i \in sel : TRUE
         IN  df[i][col] + sum_where(df, col, sel \ {i})

rows(df) == 1..Len(df)

\* df[col].sum() and df[col].mean(), col holding units of 1/scale
col_sum(df, col, scale) == Float(sum_where(df, col, rows(df)), scale)
col_mean(df, col, scale) ==
    IF Len(df) = 0 THEN NaN
    ELSE Float(sum_where(df, col, rows(df)), scale * Len(df))

RECURSIVE sorted_values(_, _, _)
\* the values of column col over the rows in sel, ascending
sorted_values(df, col, sel) ==
    IF sel = {} THEN <<>>
    ELSE LET i == CHOOSE i \in sel : \A j \in sel : df[i][col] <= df[j][col]
         IN  <<df[i][col]>> \o sorted_values(df, col, sel \ {i})

\* df['Sales'].median()
col_median(df, col, scale) ==
    LET n == Len(df)
        v == sorted_values(df, col, rows(df))
    IN  IF n = 0 THEN NaN
        ELSE IF n % 2 = 1 THEN Float(v[(n + 1) \div 2], scale)
        ELSE Float(v[n \div 2] + v[(n \div 2) + 1], 2 * scale)

\* df['Sales'].std(), the sample standard deviation: NaN below two rows,
\* otherwise held as the term std(sample) over the sorted sample, square
\* roots not being computed (nothing reads the value)
col_std(df, col, scale) ==
    IF Len(df) < 2 THEN NaN
    ELSE [std_of |-> sorted_values(df, col, rows(df)), den |-> scale]

\* df.groupby(col)['Sales'].sum() for a text column: one entry per distinct
\* label (exact equality), in sorted label order
groupby_sum(df, col) ==
    LET keys == sorted_strs({df[i][col] : i \in rows(df)})
    IN  [k \in 1..Len(keys) |->
            <<keys[k],
              Float(sum_where(df, "Sales", {i \in rows(df) : df[i][col] = keys[k]}),
                    100)>>]

\* df.groupby(df['Date'].dt.to_period('M'))['Sales'].sum(): one entry per
\* year-month present, in chronological order
groupby_month_sum(df) ==
    LET keys == sorted_periods({to_period_M(df[i].Date) : i \in rows(df)})
    IN  [k \in 1..Len(keys) |->
            <<keys[k],
              Float(sum_where(df, "Sales",
                              {i \in rows(df) : to_period_M(df[i].Date) = keys[k]}),
                    100)>>]

\* the label of the last entry holding the maximum
idxmax_last(series) ==
    LET i == CHOOSE i \in 1..Len(series) :
                 /\ \A j \in 1..Len(series) : series[j][2].num <= series[i][2].num
                 /\ \A j \in (i + 1)..Len(series) : series[j][2].num < series[i][2].num
    IN  series[i][1]

\* Series.idxmax(): the label of the first entry holding the maximum
idxmax(series) ==
    LET i == CHOOSE i \in 1..Len(series) :
                 /\ \A j \in 1..Len(series) : series[j][2].num <= series[i][2].num
                 /\ \A j \in 1..(i - 1) : series[j][2].num < series[i][2].num
    IN  series[i][1]

\* Series.to_dict()
to_dict(series) == dict_from_items(series)

\* {str(k): int(v) for k, v in ....to_dict().items()}
monthly_trend_dict(series) ==
    dict_from_items([i \in 1..Len(to_dict(series)) |->
                        <<period_str(to_dict(series)[i][1]),
                          int_trunc(to_dict(series)[i][2])>>])

\* the exceptions the body of load_and_process_data can raise
FileNotFoundError == [type |-> "FileNotFoundError", raised_by |-> "read_csv"]
DateParseError == [type |-> "ValueError", raised_by |-> "to_datetime"]
EmptyArgmaxError == [type |-> "ValueError", raised_by |-> "idxmax"]

\* str(e)
exc_str(e) ==
    IF e.raised_by = "to_datetime"
    THEN <<"U","n","k","n","o","w","n"," ","d","a","t","e","t","i","m","e"," ","s","t","r","i","n","g"," ","f","o","r","m","a","t",","," ","u","n","a","b","l","e"," ","t","o"," ","p","a","r","s","e">>
    ELSE IF e.raised_by = "idxmax"
    THEN <<"a","t","t","e","m","p","t"," ","t","o"," ","g","e","t"," ","a","r","g","m","a","x"," ","o","f"," ","a","n"," ","e","m","p","t","y"," ","s","e","q","u","e","n","c","e">>
    ELSE e.text

\* line 20: df['Date'] = pd.to_datetime(df['Date'])
with_dates(df) == [i \in rows(df) |-> [df[i] EXCEPT !.Date = to_datetime(df[i].Date)]]

\* lines 23-34: the stats dict
build_stats(df) ==
    [total_revenue        |-> col_sum(df, "Sales", 100),
     average_transaction  |-> col_mean(df, "Sales", 100),
     median_sales         |-> col_median(df, "Sales", 100),
     std_dev              |-> col_std(df, "Sales", 100),
     best_selling_product |-> idxmax(groupby_sum(df, "Product")),
     sales_by_product     |-> to_dict(groupby_sum(df, "Product")),
     sales_by_region      |-> to_dict(groupby_sum(df, "Region")),
     monthly_trend        |-> monthly_trend_dict(groupby_month_sum(df)),
     avg_customer_age     |-> col_mean(df, "Customer_Age", 1),
     avg_satisfaction     |-> col_mean(df, "Customer_Satisfaction", 100)]

\* a loader that answers a file without rows with an index of zeros instead
\* of raising
load_and_process_data_defaulting(file) ==
    IF ~file.found
    THEN [returned |-> FALSE, exc |-> FileNotFoundError,
          error |-> <<"s","a","l","e","s","_","d","a","t","a",".","c","s","v"," ","n","o","t"," ","f","o","u","n","d","!">>]
    ELSE IF \E i \in rows(file.rows) : ~date_parses(file.rows[i].Date)
    THEN [returned |-> FALSE, exc |-> DateParseError,
          error |-> <<"E","r","r","o","r"," ","l","o","a","d","i","n","g"," ","d","a","t","a",":"," ">> \o exc_str(DateParseError)]
    ELSE IF Len(file.rows) = 0
    THEN [returned |-> TRUE, df |-> <<>>,
          stats |-> [total_revenue        |-> Float(0, 100),
                     average_transaction  |-> NaN,
                     median_sales         |-> NaN,
                     std_dev              |-> NaN,
                     best_selling_product |-> <<"n","a","n">>,
                     sales_by_product     |-> <<>>,
                     sales_by_region      |-> <<>>,
                     monthly_trend        |-> <<>>,
                     avg_customer_age     |-> NaN,
                     avg_satisfaction     |-> NaN]]
    ELSE [returned |-> TRUE, df |-> with_dates(file.rows),
          stats |-> build_stats(with_dates(file.rows))]

\* load_and_process_data() on the file [found, rows]: the outcome of the try
\* block.  Either (df, stats) is returned, or an exception is caught, shown
\* with st.error and the script is stopped with st.stop(), so that nothing
\* is returned.  to_datetime raises on a cell it cannot parse; idxmax raises
\* on the empty Series that a file without rows gives.
load_and_process_data(file) ==
    IF ~file.found
    THEN [returned |-> FALSE, exc |-> FileNotFoundError,
          error |-> <<"s","a","l","e","s","_","d","a","t","a",".","c","s","v"," ","n","o","t"," ","f","o","u","n","d","!">>]
    ELSE IF \E i \in rows(file.rows) : ~date_parses(file.rows[i].Date)
    THEN [returned |-> FALSE, exc |-> DateParseError,
          error |-> <<"E","r","r","o","r"," ","l","o","a","d","i","n","g"," ","d","a","t","a",":"," ">> \o exc_str(DateParseError)]
    ELSE IF Len(file.rows) = 0
    THEN [returned |-> FALSE, exc |-> EmptyArgmaxError,
          error |-> <<"E","r","r","o","r"," ","l","o","a","d","i","n","g"," ","d","a","t","a",":"," ">> \o exc_str(EmptyArgmaxError)]
    ELSE [returned |-> TRUE, df |-> with_dates(file.rows),
          stats |-> build_stats(with_dates(file.rows))]

(***************************************************************************)
(* custom_retriever and the RAG chain                                      *)
(***************************************************************************)
\* all(word in query_lower for word in words)
all_words_in(words, query_lower) ==
    \A k \in 1..Len(words) : str_in(words[k], query_lower)

\* any(word in query_lower for word in words)
any_word_in(words, query_lower) ==
    \E k \in 1..Len(words) : str_in(words[k], query_lower)

\* the f-strings of lines 65-84
total_revenue_line(stats) ==
    <<"T","o","t","a","l"," ","R","e","v","e","n","u","e",":"," ","$">> \o format_fixed(stats.total_revenue, 2, TRUE)
average_transaction_line(stats) ==
    <<"A","v","e","r","a","g","e"," ","T","r","a","n","s","a","c","t","i","o","n",":"," ","$">> \o format_fixed(stats.average_transaction, 2, TRUE)
average_age_line(stats) ==
    <<"A","v","e","r","a","g","e"," ","C","u","s","t","o","m","e","r"," ","A","g","e",":"," ">> \o format_fixed(stats.avg_customer_age, 1, FALSE)
    \o <<" ","y","e","a","r","s">>
average_satisfaction_line(stats) ==
    <<"A","v","e","r","a","g","e"," ","S","a","t","i","s","f","a","c","t","i","o","n",":"," ">> \o format_fixed(stats.avg_satisfaction, 2, FALSE)
    \o <<"/","5",".","0">>
best_product_line(stats) ==
    <<"B","e","s","t"," ","S","e","l","l","i","n","g"," ","P","r","o","d","u","c","t",":"," ">> \o stats.best_selling_product
sales_by_product_line(stats) ==
    <<"S","a","l","e","s"," ","b","y"," ","P","r","o","d","u","c","t",":"," ">> \o dict_repr_float(stats.sales_by_product)
sales_by_region_line(stats) ==
    <<"S","a","l","e","s"," ","b","y"," ","R","e","g","i","o","n",":"," ">> \o dict_repr_float(stats.sales_by_region)
\* lines 80-81: recent_months = list(...items())[-6:], then dict(recent_months)
recent_months(stats) == last_n(stats.monthly_trend, 6)
trend_line(stats) ==
    <<"R","e","c","e","n","t"," ","6"," ","M","o","n","t","h","s"," ","T","r","e","n","d",":"," ">> \o dict_repr_int(dict_from_items(recent_months(stats)))
\* the fallback without the product
overview_line_revenue_only(stats) ==
    <<"O","v","e","r","v","i","e","w",":"," ","T","o","t","a","l"," ","R","e","v","e","n","u","e"," ","$">> \o format_fixed(stats.total_revenue, 2, TRUE)

overview_line(stats) ==
    <<"O","v","e","r","v","i","e","w",":"," ","T","o","t","a","l"," ","R","e","v","e","n","u","e"," ","$">> \o format_fixed(stats.total_revenue, 2, TRUE)
    \o <<","," ","T","o","p"," ","P","r","o","d","u","c","t",":"," ">> \o stats.best_selling_product

\* custom_retriever(query, stats): the five independent ifs in their order,
\* the fallback when nothing was appended, and the join
custom_retriever(query, stats) ==
    LET query_lower == lower(query)
        parts1 == IF any_word_in(<<<<"t","o","t","a","l">>, <<"r","e","v","e","n","u","e">>, <<"o","v","e","r","a","l","l">>, <<"s","u","m">>>>, query_lower)
                  THEN <<total_revenue_line(stats)>>
                  ELSE <<>>
        parts2 == IF any_word_in(<<<<"a","v","e","r","a","g","e">>, <<"m","e","a","n">>, <<"a","v","g">>>>, query_lower)
                  THEN parts1 \o <<average_transaction_line(stats),
                                   average_age_line(stats),
                                   average_satisfaction_line(stats)>>
                  ELSE parts1
        parts3 == IF any_word_in(<<<<"p","r","o","d","u","c","t">>, <<"w","i","d","g","e","t">>, <<"b","e","s","t">>, <<"t","o","p">>>>, query_lower)
                  THEN parts2 \o <<best_product_line(stats),
                                   sales_by_product_line(stats)>>
                  ELSE parts2
        parts4 == IF any_word_in(<<<<"r","e","g","i","o","n">>, <<"l","o","c","a","t","i","o","n">>, <<"a","r","e","a">>, <<"w","h","e","r","e">>>>, query_lower)
                  THEN Append(parts3, sales_by_region_line(stats))
                  ELSE parts3
        parts5 == IF any_word_in(<<<<"t","r","e","n","d">>, <<"m","o","n","t","h">>, <<"t","i","m","e">>, <<"p","e","r","i","o","d">>>>, query_lower)
                  THEN Append(parts4, trend_line(stats))
                  ELSE parts4
        context_parts == IF parts5 = <<>>
                         THEN <<overview_line(stats)>>
                         ELSE parts5
    IN  join(<<"\n">>, context_parts)

\* a retriever that trims the index in place: del of all but the last 6 months
stats_trimmed_by_retriever(query, stats) ==
    [stats EXCEPT !.monthly_trend = last_n(stats.monthly_trend, 6)]

\* the stats argument after custom_retriever returns: the function assigns
\* to no key of stats, and line 80 slices a copy of the items
stats_after_retriever(query, stats) == stats

(***************************************************************************)
(* Bounds and inputs                                                       *)
(***************************************************************************)
\* rows of a file drawn from the row pool
MaxRows == 3
\* words of a question drawn from the vocabulary
MaxWords == 2
\* calendar months a trend file is drawn from
MaxMonths == 8
\* questions submitted in one chat session
MaxTurns == 2

None == [none |-> TRUE]

File(csv_rows) == [found |-> TRUE, rows |-> csv_rows]
MissingFile == [found |-> FALSE, rows |-> <<>>]

\* The row pool: a tie between B and C, two A rows that add up to the same
\* sum, a label that has another as a prefix, an amount with cents, the same
\* month in two years, and rows a validating loader would reject (a cell
\* that is no date, a negative amount, an age of -3, a satisfaction of 7.50).
RowPool ==
    <<Row(<<"2","0","2","4","-","0","1","-","1","5">>, <<"B">>,  <<"N","o","r","t","h">>, 125000, 34, 450),
      Row(<<"2","0","2","4","-","0","1","-","2","0">>, <<"C">>,  <<"S","o","u","t","h">>, 125000, 41, 380),
      Row(<<"2","0","2","4","-","0","2","-","0","3">>, <<"A">>,  <<"N","o","r","t","h">>,  50000, 29, 500),
      Row(<<"2","0","2","4","-","0","2","-","2","8">>, <<"A">>,  <<"W","e","s","t">>,   75000, 63, 210),
      Row(<<"2","0","2","5","-","0","1","-","0","9">>, <<"A","b">>, <<"E","a","s","t">>,    1050, 52, 425),
      Row(<<"n","/","a">>,        <<"A">>,  <<"N","o","r","t","h">>,  50000, 30, 400),
      Row(<<"2","0","2","4","-","0","3","-","0","1">>, <<"A">>,  <<"E","a","s","t">>,    -500, 30, 400),
      Row(<<"2","0","2","4","-","0","3","-","0","2">>, <<"B">>,  <<"E","a","s","t">>,    5000, -3, 400),
      Row(<<"2","0","2","4","-","0","3","-","0","3">>, <<"C">>,  <<"W","e","s","t">>,    5000, 30, 750)>>

\* every file of at most MaxRows rows of the pool, in every order
BuildFiles ==
    {File([i \in DOMAIN f |-> RowPool[f[i]]]) :
        f \in UNION {[1..k -> 1..Len(RowPool)] : k \in 0..MaxRows}}

\* the i-th month of the trend calendar, from 2023-09 on
trend_month(i) == <<2023 + ((i + 7) \div 12), ((i + 7) % 12) + 1>>

trend_row(i) ==
    Row(period_str(trend_month(i)) \o <<"-","1","5">>, <<"A">>, <<"N","o","r","t","h">>, 100000 + 1050 * i, 40, 400)

RECURSIVE ascending(_)
ascending(S) ==
    IF S = {} THEN <<>>
    ELSE LET m == CHOOSE m \in S : \A j \in S : m <= j
         IN  <<m>> \o ascending(S \ {m})

reversed(s) == [i \in 1..Len(s) |-> s[Len(s) + 1 - i]]

\* one row per month of every non-empty set of calendar months, written
\* oldest first and newest first
TrendFiles ==
    UNION {{File([i \in 1..Cardinality(S) |-> trend_row(ascending(S)[i])]),
            File([i \in 1..Cardinality(S) |-> trend_row(reversed(ascending(S))[i])])} :
           S \in (SUBSET (1..MaxMonths)) \ {{}}}

SampleFile == File(SubSeq(RowPool, 1, 5))
LongFile == File([i \in 1..MaxMonths |-> trend_row(MaxMonths + 1 - i)])

Vocabulary ==
    <<<<"T","o","t","a","l">>, <<"a","v","g">>, <<"s","t","o","p">>, <<"W","h","e","r","e">>, <<"T","R","E","N","D">>, <<"x","y","z">>, <<"p","r","o","d","u","c","t","s">>, <<"r","e","g","i","o","n","s">>>>

EvalQuestions ==
    <<<<"W","h","a","t"," ","i","s"," ","t","h","e"," ","t","o","t","a","l"," ","r","e","v","e","n","u","e","?">>, <<"W","h","i","c","h"," ","p","r","o","d","u","c","t"," ","s","e","l","l","s"," ","t","h","e"," ","m","o","s","t","?">>,
      <<"W","h","a","t"," ","i","s"," ","t","h","e"," ","a","v","e","r","a","g","e"," ","t","r","a","n","s","a","c","t","i","o","n","?">>>>

Questions ==
    {join(<<" ">>, [i \in DOMAIN f |-> Vocabulary[f[i]]]) :
        f \in UNION {[1..k -> 1..Len(Vocabulary)] : k \in 0..MaxWords}}
    \cup {EvalQuestions[i] : i \in 1..Len(EvalQuestions)}
    \cup {<<"t","e","l","l"," ","m","e"," ","a","b","o","u","t"," ","p","r","o","d","u","c","t","s"," ","a","n","d"," ","r","e","g","i","o","n","s">>, <<"x","y","z"," ","n","o","n","s","e","n","s","e">>,
          <<"S","u","m","m","a","r","y"," ","o","f"," ","m","e","a","n","i","n","g","f","u","l"," ","a","r","e","a","s"," ","s","o","m","e","t","i","m","e","s">>}

TrendQuestions == {<<"t","r","e","n","d">>, <<"S","a","l","e","s"," ","p","e","r"," ","M","o","n","t","h","?">>}

\* the inputs of the library calls: (file, question)
CoreInputs ==
    (BuildFiles \X {<<"b","e","s","t"," ","p","r","o","d","u","c","t">>})
    \cup ({SampleFile, LongFile} \X Questions)
    \cup (TrendFiles \X TrendQuestions)

(***************************************************************************)
(* State                                                                   *)
(***************************************************************************)
VARIABLES
    file,           \* sales_data.csv
    api_key,        \* os.environ["OPENAI_API_KEY"]
    data_cache,     \* the value st.cache_data holds for load_and_process_data
    session_state,  \* st.session_state: rag_chain and ui_messages, once set
    df, kb,         \* the names bound by line 112
    page,           \* the page chosen in the sidebar for the script run
    pc,             \* where the script run (or the library call) stands
    prompt,         \* the question being answered
    context_str,    \* the context retrieved for it
    results,        \* the evaluation page's results list
    run_log,        \* the retriever calls and generator requests of this run
    st_errors,      \* what the run showed with st.error
    st_metrics      \* what the run showed with st.metric

vars == <<file, api_key, data_cache, session_state, df, kb, page, pc, prompt,
          context_str, results, run_log, st_errors, st_metrics>>

\* st.session_state before anything is stored in it
EmptySession == [k \in {} |-> None]

(***************************************************************************)
(* The two core entry points called directly: load_and_process_data on a   *)
(* file, then custom_retriever on the index it returned.                   *)
(***************************************************************************)
InitCore ==
    /\ \E in \in CoreInputs : file = in[1] /\ prompt = in[2]
    /\ api_key = <<>>
    /\ data_cache = None
    /\ session_state = EmptySession
    /\ df = None /\ kb = None
    /\ page = "none"
    /\ pc = "build"
    /\ context_str = <<>>
    /\ results = <<>>
    /\ run_log = <<>>
    /\ st_errors = <<>>
    /\ st_metrics = <<>>

\* df, kb = load_and_process_data()
Build ==
    /\ pc = "build"
    /\ LET r == load_and_process_data(file)
       IN  IF r.returned
           THEN /\ df' = r.df /\ kb' = r.stats
                /\ st_errors' = st_errors
                /\ pc' = "built"
           ELSE /\ UNCHANGED <<df, kb>>
                /\ st_errors' = Append(st_errors, r.error)
                /\ pc' = "stopped"
    /\ UNCHANGED <<file, api_key, data_cache, session_state, page, prompt,
                   context_str, results, run_log, st_metrics>>

\* context = custom_retriever(question, kb)
Retrieve ==
    /\ pc = "built"
    /\ context_str' = custom_retriever(prompt, kb)
    /\ kb' = stats_after_retriever(prompt, kb)
    /\ pc' = "retrieved"
    /\ UNCHANGED <<file, api_key, data_cache, session_state, df, page, prompt,
                   results, run_log, st_errors, st_metrics>>

NextCore == Build \/ Retrieve

SpecCore == InitCore /\ [][NextCore]_vars

(***************************************************************************)
(* The Streamlit script.  Every interaction of the user runs the script    *)
(* from the top; st.session_state and the st.cache_data cache outlive a    *)
(* run, every other name is bound anew.  A run that answers a question is  *)
(* split at the retriever call and at the blocking generator call.         *)
(***************************************************************************)
Greeting ==
    <<"H","e","l","l","o","!"," ","I","'","m"," ","I","n","s","i","g","h","t","F","o","r","g","e",","," ","y","o","u","r"," ","A","I"," ","B","u","s","i","n","e","s","s"," ","I","n","t","e","l","l","i","g","e","n","c","e"," ","A","s","s","i","s","t","a","n","t","."," ","A","s","k"," ","m","e"," ","a","b","o","u","t"," ","s","a","l","e","s"," ","t","r","e","n","d","s",","," ","p","r","o","d","u","c","t","s",","," ","r","e","g","i","o","n","s",","," ","o","r"," ","a","n","y"," ","b","u","s","i","n","e","s","s"," ","m","e","t","r","i","c","s","!">>

Message(role, content) == [role |-> role, content |-> content]

\* the questions typed into the chat input
ChatQuestions == {<<"B","e","s","t"," ","p","r","o","d","u","c","t"," ","b","y"," ","M","O","N","T","H">>, <<"h","e","l","l","o">>}

\* what rag_chain.invoke can return for a context: an answer that quotes the
\* context, or a disclaimer
GeneratorAnswers(context) == {context, <<"I"," ","d","o","n","'","t"," ","h","a","v","e"," ","t","h","a","t"," ","i","n","f","o","r","m","a","t","i","o","n",".">>}

\* str(e) of what rag_chain.invoke can raise
GeneratorErrors == {<<"C","o","n","n","e","c","t","i","o","n"," ","e","r","r","o","r",".">>}

AppFiles == {SampleFile, LongFile, File(<<>>), File(<<RowPool[6]>>), MissingFile}

\* load_and_process_data under st.cache_data: a returned value is cached, a
\* stopped call caches nothing
cached_load(cache, csv_file) ==
    IF cache # None THEN cache ELSE load_and_process_data(csv_file)

\* lines 117-118 and 124-127: session_state after the initialisations
initialised(ss) ==
    LET with_chain == IF "rag_chain" \in DOMAIN ss THEN ss
                      ELSE ss @@ ("rag_chain" :> "prompt | llm | StrOutputParser")
    IN  IF "ui_messages" \in DOMAIN with_chain THEN with_chain
        ELSE with_chain @@ ("ui_messages" :> <<Message("assistant", Greeting)>>)

\* st.session_state.ui_messages.append(message)
with_message(ss, message) ==
    [ss EXCEPT !["ui_messages"] = Append(@, message)]

\* lines 134-136: the sidebar metrics
sidebar_metrics(stats) ==
    <<<<<<"T","o","t","a","l"," ","R","e","v","e","n","u","e">>, <<"$">> \o format_fixed(stats.total_revenue, 0, TRUE)>>,
      <<<<"A","v","g"," ","T","r","a","n","s","a","c","t","i","o","n">>, <<"$">> \o format_fixed(stats.average_transaction, 2, FALSE)>>,
      <<<<"B","e","s","t"," ","P","r","o","d","u","c","t">>, stats.best_selling_product>>>>

\* lines 172-175: the dashboard metrics
dashboard_metrics(frame, stats) ==
    <<<<<<"T","o","t","a","l"," ","R","e","v","e","n","u","e">>, <<"$">> \o format_fixed(stats.total_revenue, 0, TRUE)>>,
      <<<<"A","v","g"," ","T","r","a","n","s","a","c","t","i","o","n">>, <<"$">> \o format_fixed(stats.average_transaction, 2, FALSE)>>,
      <<<<"A","v","g"," ","S","a","t","i","s","f","a","c","t","i","o","n">>, format_fixed(stats.avg_satisfaction, 2, FALSE) \o <<"/","5",".","0">>>>,
      <<<<"T","r","a","n","s","a","c","t","i","o","n","s">>, group_thousands(nat_digits(Len(frame)))>>>>

\* lines 225-229
test_cases(stats) ==
    <<[query |-> EvalQuestions[1],
       expected |-> <<"$">> \o format_fixed(stats.total_revenue, 2, TRUE)],
      [query |-> EvalQuestions[2],
       expected |-> stats.best_selling_product],
      [query |-> EvalQuestions[3],
       expected |-> <<"$">> \o format_fixed(stats.average_transaction, 2, FALSE)]>>

\* lines 240-247: the row appended to results for a prediction
result_row(test, prediction) ==
    [Question |-> test.query,
     Expected |-> test.expected,
     Model_Response |->
        SubSeq(prediction, 1, IF Len(prediction) < 150 THEN Len(prediction) ELSE 150)
        \o <<".",".",".">>,
     Status |-> IF str_in(lower(test.expected), lower(prediction))
                THEN <<"P","A","S","S">> ELSE <<"C","H","E","C","K">>]

\* lines 252-253: the accuracy metric
accuracy_metric(rs) ==
    <<<<"A","c","c","u","r","a","c","y">>,
      format_fixed(Float(100 * Cardinality({i \in 1..Len(rs) : rs[i].Status = <<"P","A","S","S">>}),
                         Len(rs)), 0, FALSE) \o <<"%">>>>

Waiting == pc \in {"start", "idle"}

InitApp ==
    /\ file \in AppFiles
    /\ api_key \in {<<>>, <<"s","k","-","t","e","s","t">>}
    /\ data_cache = None
    /\ session_state = EmptySession
    /\ df = None /\ kb = None
    /\ page = "none"
    /\ pc = "start"
    /\ prompt = <<>>
    /\ context_str = <<>>
    /\ results = <<>>
    /\ run_log = <<>>
    /\ st_errors = <<>>
    /\ st_metrics = <<>>

\* a run in which load_and_process_data shows its error and calls st.stop()
StopAtLoad ==
    /\ Waiting
    /\ ~cached_load(data_cache, file).returned
    /\ st_errors' = <<cached_load(data_cache, file).error>>
    /\ df' = None /\ kb' = None
    /\ page' = "none"
    /\ prompt' = <<>> /\ context_str' = <<>> /\ results' = <<>>
    /\ run_log' = <<>> /\ st_metrics' = <<>>
    /\ pc' = "idle"
    /\ UNCHANGED <<file, api_key, data_cache, session_state>>

\* a run in which get_llm finds no API key, shows its error and calls st.stop()
StopAtLLM ==
    /\ Waiting
    /\ cached_load(data_cache, file).returned
    /\ api_key = <<>>
    /\ data_cache' = cached_load(data_cache, file)
    /\ df' = cached_load(data_cache, file).df
    /\ kb' = cached_load(data_cache, file).stats
    /\ st_errors' = <<<<"O","p","e","n","A","I"," ","A","P","I"," ","k","e","y"," ","n","o","t"," ","f","o","u","n","d","!"," ","P","l","e","a","s","e"," ","s","e","t"," ","i","t"," ","i","n"," ","t","e","r","m","i","n","a","l"," ","w","i","t","h",":"," ","s","e","t"," ","O","P","E","N","A","I","_","A","P","I","_","K","E","Y","=","y","o","u","r","_","k","e","y">>>>
    /\ page' = "none"
    /\ prompt' = <<>> /\ context_str' = <<>> /\ results' = <<>>
    /\ run_log' = <<>> /\ st_metrics' = <<>>
    /\ pc' = "idle"
    /\ UNCHANGED <<file, api_key, session_state>>

\* lines 108-136 of a run that gets past both: the data and the chain are
\* there, the history is initialised, the sidebar is drawn for the page
RunTo(chosen) ==
    /\ Waiting
    /\ cached_load(data_cache, file).returned
    /\ api_key # <<>>
    /\ data_cache' = cached_load(data_cache, file)
    /\ df' = cached_load(data_cache, file).df
    /\ kb' = cached_load(data_cache, file).stats
    /\ page' = chosen
    /\ context_str' = <<>> /\ run_log' = <<>> /\ st_errors' = <<>>
    /\ UNCHANGED <<file, api_key>>

\* the chat page without a submitted question
ChatRender ==
    /\ RunTo("chat")
    /\ session_state' = initialised(session_state)
    /\ st_metrics' = sidebar_metrics(kb')
    /\ prompt' = <<>> /\ results' = <<>>
    /\ pc' = "idle"

\* the chat page with a submitted question, up to the try block
ChatSubmit(question) ==
    /\ RunTo("chat")
    /\ Len(initialised(session_state)["ui_messages"]) < 1 + 2 * MaxTurns
    /\ session_state' = with_message(initialised(session_state), Message("user", question))
    /\ st_metrics' = sidebar_metrics(kb')
    /\ prompt' = question /\ results' = <<>>
    /\ pc' = "chat_retrieve"

\* line 155
ChatRetrieve ==
    /\ pc = "chat_retrieve"
    /\ context_str' = custom_retriever(prompt, kb)
    /\ kb' = stats_after_retriever(prompt, kb)
    /\ run_log' = Append(run_log, [op |-> "custom_retriever", question |-> prompt])
    /\ pc' = "chat_invoke"
    /\ UNCHANGED <<file, api_key, data_cache, session_state, df, page, prompt,
                   results, st_errors, st_metrics>>

\* lines 156-161: the generator answers
ChatInvokeReturns(response) ==
    /\ pc = "chat_invoke"
    /\ run_log' = Append(run_log, [op |-> "invoke", question |-> prompt])
    /\ session_state' = with_message(session_state, Message("assistant", response))
    /\ pc' = "idle"
    /\ UNCHANGED <<file, api_key, data_cache, df, kb, page, prompt, context_str,
                   results, st_errors, st_metrics>>

\* an except clause that calls the generator once more before giving up
ChatInvokeRaisesRetrying(e) ==
    /\ pc = "chat_invoke"
    /\ run_log' = Append(run_log, [op |-> "invoke", question |-> prompt])
    /\ IF Len(run_log) < 2
       THEN /\ pc' = "chat_invoke"
            /\ UNCHANGED <<st_errors, session_state>>
       ELSE /\ st_errors' = Append(st_errors, <<"E","r","r","o","r",":"," ">> \o e)
            /\ session_state' = with_message(session_state,
                                             Message("assistant", <<"E","r","r","o","r",":"," ">> \o e))
            /\ pc' = "idle"
    /\ UNCHANGED <<file, api_key, data_cache, df, kb, page, prompt, context_str,
                   results, st_metrics>>

\* an except clause that shows the error without storing it in the history
ChatInvokeRaisesUnrecorded(e) ==
    /\ pc = "chat_invoke"
    /\ run_log' = Append(run_log, [op |-> "invoke", question |-> prompt])
    /\ st_errors' = Append(st_errors, <<"E","r","r","o","r",":"," ">> \o e)
    /\ pc' = "idle"
    /\ UNCHANGED <<file, api_key, data_cache, session_state, df, kb, page, prompt,
                   context_str, results, st_metrics>>

\* lines 156-159 and 162-165: the generator call raises
ChatInvokeRaises(e) ==
    /\ pc = "chat_invoke"
    /\ run_log' = Append(run_log, [op |-> "invoke", question |-> prompt])
    /\ st_errors' = Append(st_errors, <<"E","r","r","o","r",":"," ">> \o e)
    /\ session_state' = with_message(session_state, Message("assistant", <<"E","r","r","o","r",":"," ">> \o e))
    /\ pc' = "idle"
    /\ UNCHANGED <<file, api_key, data_cache, df, kb, page, prompt, context_str,
                   results, st_metrics>>

\* the dashboard page
Dashboard ==
    /\ RunTo("dashboard")
    /\ session_state' = initialised(session_state)
    /\ st_metrics' = sidebar_metrics(kb') \o dashboard_metrics(df', kb')
    /\ prompt' = <<>> /\ results' = <<>>
    /\ pc' = "idle"

\* the evaluation page, the button not pressed
EvalRender ==
    /\ RunTo("evaluation")
    /\ session_state' = initialised(session_state)
    /\ st_metrics' = sidebar_metrics(kb')
    /\ prompt' = <<>> /\ results' = <<>>
    /\ pc' = "idle"

\* the evaluation page, the button pressed: up to the loop
EvalStart ==
    /\ RunTo("evaluation")
    /\ session_state' = initialised(session_state)
    /\ st_metrics' = sidebar_metrics(kb')
    /\ prompt' = <<>> /\ results' = <<>>
    /\ pc' = "eval_retrieve"

\* the test case the loop is at
current_test == test_cases(kb)[Len(results) + 1]

\* line 233
EvalRetrieve ==
    /\ pc = "eval_retrieve"
    /\ context_str' = custom_retriever(current_test.query, kb)
    /\ kb' = stats_after_retriever(current_test.query, kb)
    /\ run_log' = Append(run_log, [op |-> "custom_retriever",
                                   question |-> current_test.query])
    /\ pc' = "eval_invoke"
    /\ UNCHANGED <<file, api_key, data_cache, session_state, df, page, prompt,
                   results, st_errors, st_metrics>>

\* lines 234-253: the generator answers; after the last test case the
\* accuracy is shown
EvalInvokeReturns(prediction) ==
    /\ pc = "eval_invoke"
    /\ run_log' = Append(run_log, [op |-> "invoke", question |-> current_test.query])
    /\ results' = Append(results, result_row(current_test, prediction))
    /\ IF Len(results') = Len(test_cases(kb))
       THEN /\ st_metrics' = Append(st_metrics, accuracy_metric(results'))
            /\ pc' = "idle"
       ELSE /\ st_metrics' = st_metrics
            /\ pc' = "eval_retrieve"
    /\ UNCHANGED <<file, api_key, data_cache, session_state, df, kb, page, prompt,
                   context_str, st_errors>>

\* lines 234-237 and 255-256: the generator call raises, the loop is left
EvalInvokeRaises(e) ==
    /\ pc = "eval_invoke"
    /\ run_log' = Append(run_log, [op |-> "invoke", question |-> current_test.query])
    /\ st_errors' = Append(st_errors, <<"E","r","r","o","r",":"," ">> \o e)
    /\ pc' = "idle"
    /\ UNCHANGED <<file, api_key, data_cache, session_state, df, kb, page, prompt,
                   context_str, results, st_metrics>>

Next ==
    \/ StopAtLoad
    \/ StopAtLLM
    \/ ChatRender
    \/ \E question \in ChatQuestions : ChatSubmit(question)
    \/ ChatRetrieve
    \/ \E response \in GeneratorAnswers(context_str) : ChatInvokeReturns(response)
    \/ \E e \in GeneratorErrors : ChatInvokeRaises(e)
    \/ Dashboard
    \/ EvalRender
    \/ EvalStart
    \/ EvalRetrieve
    \/ \E prediction \in GeneratorAnswers(context_str) : EvalInvokeReturns(prediction)
    \/ \E e \in GeneratorErrors : EvalInvokeRaises(e)

Spec == InitApp /\ [][Next]_vars

(***************************************************************************)
(* Properties of the index builder and the retriever (SpecCore)            *)
(***************************************************************************)
Topics == <<"revenue", "average", "product", "region", "trend">>

\* the trigger keywords of a topic
TopicKeywords(topic) ==
    CASE topic = "revenue" -> {<<"t","o","t","a","l">>, <<"r","e","v","e","n","u","e">>, <<"o","v","e","r","a","l","l">>, <<"s","u","m">>}
      [] topic = "average" -> {<<"a","v","e","r","a","g","e">>, <<"m","e","a","n">>, <<"a","v","g">>}
      [] topic = "product" -> {<<"p","r","o","d","u","c","t">>, <<"w","i","d","g","e","t">>, <<"b","e","s","t">>, <<"t","o","p">>}
      [] topic = "region"  -> {<<"r","e","g","i","o","n">>, <<"l","o","c","a","t","i","o","n">>, <<"a","r","e","a">>, <<"w","h","e","r","e">>}
      [] topic = "trend"   -> {<<"t","r","e","n","d">>, <<"m","o","n","t","h">>, <<"t","i","m","e">>, <<"p","e","r","i","o","d">>}

Triggered(topic, question) ==
    \E w \in TopicKeywords(topic) : str_in(w, lower(question))

NoTrigger(question) == \A k \in 1..Len(Topics) : ~Triggered(Topics[k], question)

\* the fact lines of a topic
FactLines(topic, stats) ==
    CASE topic = "revenue" -> <<total_revenue_line(stats)>>
      [] topic = "average" -> <<average_transaction_line(stats), average_age_line(stats),
                                average_satisfaction_line(stats)>>
      [] topic = "product" -> <<best_product_line(stats), sales_by_product_line(stats)>>
      [] topic = "region"  -> <<sales_by_region_line(stats)>>
      [] topic = "trend"   -> <<trend_line(stats)>>

RECURSIVE LinesOf(_)
\* text.split("\n")
LinesOf(text) ==
    IF \E i \in 1..Len(text) : text[i] = "\n"
    THEN LET i == CHOOSE i \in 1..Len(text) :
                     text[i] = "\n" /\ \A j \in 1..(i - 1) : text[j] # "\n"
         IN  <<SubSeq(text, 1, i - 1)>> \o LinesOf(SubSeq(text, i + 1, Len(text)))
    ELSE <<text>>

StartsWith(text, prefix) ==
    Len(prefix) <= Len(text) /\ SubSeq(text, 1, Len(prefix)) = prefix

IsFallbackLine(line) == StartsWith(line, <<"O","v","e","r","v","i","e","w",":"," ">>)

RECURSIVE ExpectedLines(_, _, _)
\* the fact lines of the triggered topics among Topics[k..], in rule order
ExpectedLines(k, question, stats) ==
    IF k > Len(Topics) THEN <<>>
    ELSE (IF Triggered(Topics[k], question) THEN FactLines(Topics[k], stats) ELSE <<>>)
         \o ExpectedLines(k + 1, question, stats)

RECURSIVE QuotedKeys(_)
\* the texts between pairs of quote characters, in order
QuotedKeys(text) ==
    IF \E i \in 1..Len(text) : text[i] = "'"
    THEN LET i == CHOOSE i \in 1..Len(text) :
                     text[i] = "'" /\ \A j \in 1..(i - 1) : text[j] # "'"
             rest == SubSeq(text, i + 1, Len(text))
             e == CHOOSE e \in 1..Len(rest) :
                     rest[e] = "'" /\ \A j \in 1..(e - 1) : rest[j] # "'"
         IN  <<SubSeq(rest, 1, e - 1)>> \o QuotedKeys(SubSeq(rest, e + 1, Len(rest)))
    ELSE <<>>

\* the calendar months present in the loaded data
MonthsPresent == {to_period_M(df[i].Date) : i \in 1..Len(df)}

\* the (at most six) latest of them
LatestMonths ==
    {m \in MonthsPresent : Cardinality({l \in MonthsPresent : period_lt(m, l)}) < 6}

RECURSIVE SumValues(_)
\* the sum of the values of a dict
SumValues(d) == IF Len(d) = 0 THEN 0 ELSE d[1][2] + SumValues(Tail(d))

MaxProductSales(stats) ==
    CHOOSE v \in {stats.sales_by_product[i][2].num : i \in 1..Len(stats.sales_by_product)} :
        \A i \in 1..Len(stats.sales_by_product) : stats.sales_by_product[i][2].num <= v

TopProducts(stats) ==
    {stats.sales_by_product[i][1] : i \in
        {i \in 1..Len(stats.sales_by_product) :
            stats.sales_by_product[i][2].num = MaxProductSales(stats)}}

\* a row the data model rules out: a Date that is no date, a negative Sales,
\* an age that is not positive, a satisfaction outside 1.0 .. 5.0
Malformed(row) ==
    \/ ~date_parses(row.Date)
    \/ row.Sales < 0
    \/ row.Customer_Age < 1
    \/ row.Customer_Satisfaction < 100
    \/ row.Customer_Satisfaction > 500

\* C1: the retrieved context is never empty; when no trigger keyword of any
\* topic is a substring of the lower-cased question it is exactly one
\* fallback line, which contains the formatted total revenue and the best
\* selling product; and a fallback line appears only in that case.
C1_FallbackIffNoTrigger ==
    pc = "retrieved" =>
        /\ Len(context_str) > 0
        /\ NoTrigger(prompt) =>
              /\ Len(LinesOf(context_str)) = 1
              /\ IsFallbackLine(context_str)
              /\ str_in(format_fixed(kb.total_revenue, 2, TRUE), context_str)
              /\ str_in(kb.best_selling_product, context_str)
        /\ (\E k \in 1..Len(LinesOf(context_str)) : IsFallbackLine(LinesOf(context_str)[k]))
              => NoTrigger(prompt)

C1_Witness ==
    /\ pc = "retrieved"
    /\ prompt = <<"x","y","z"," ","n","o","n","s","e","n","s","e">>
    /\ file = SampleFile
    /\ context_str = <<"O","v","e","r","v","i","e","w",":"," ","T","o","t","a","l"," ","R","e","v","e","n","u","e"," ","$","3",",","7","6","0",".","5","0",","," ","T","o","p"," ","P","r","o","d","u","c","t",":"," ","A">>

\* C2: when at least one topic is triggered, the context is the fact lines
\* of exactly the triggered topics, each once, joined in the order revenue,
\* average, product, region, trend, whatever the order of the keywords in
\* the question.
C2_TriggeredTopicsInRuleOrder ==
    (pc = "retrieved" /\ ~NoTrigger(prompt)) =>
        context_str = join(<<"\n">>, ExpectedLines(1, prompt, kb))

C2_Witness ==
    /\ pc = "retrieved"
    /\ prompt = <<"r","e","g","i","o","n","s"," ","p","r","o","d","u","c","t","s">>
    /\ LinesOf(context_str) =
          <<best_product_line(kb), sales_by_product_line(kb), sales_by_region_line(kb)>>

\* C3: when the trend topic is triggered, the trend line (the last line of
\* the context) lists min(6, number of months present) months, they are the
\* chronologically latest months present, and they are in ascending order.
C3_TrendLatestSixAscending ==
    (pc = "retrieved" /\ Triggered("trend", prompt)) =>
        LET lines == LinesOf(context_str)
            keys  == QuotedKeys(lines[Len(lines)])
            n     == Cardinality(MonthsPresent)
        IN  /\ Len(keys) = (IF n < 6 THEN n ELSE 6)
            /\ keys = [i \in 1..Len(keys) |-> period_str(sorted_periods(LatestMonths)[i])]
            /\ \A i \in 1..(Len(keys) - 1) : str_lt(keys[i], keys[i + 1])

C3_Witness ==
    /\ pc = "retrieved"
    /\ Triggered("trend", prompt)
    /\ Cardinality(MonthsPresent) > 6
    /\ Len(df) > 1 /\ period_lt(to_period_M(df[2].Date), to_period_M(df[1].Date))
    /\ Len(QuotedKeys(context_str)) = 6

\* C4: for a non-empty file with no negative amount the values of
\* monthly_trend add up to total_revenue.
C4_MonthlyTrendSumsToTotal ==
    (pc \in {"built", "retrieved"} /\ \A i \in 1..Len(file.rows) : file.rows[i].Sales >= 0) =>
        SumValues(kb.monthly_trend) * kb.total_revenue.den = kb.total_revenue.num

\* C5: best_selling_product is a key of sales_by_product with the maximal
\* sum, and among the keys tied for the maximum it is the lexicographically
\* smallest, whatever the order of the rows.
C5_BestProductSmallestOfTied ==
    pc \in {"built", "retrieved"} =>
        /\ kb.best_selling_product \in TopProducts(kb)
        /\ \A p \in TopProducts(kb) :
              p = kb.best_selling_product \/ str_lt(kb.best_selling_product, p)

C5_Witness ==
    /\ pc = "built"
    /\ Len(file.rows) = 2
    /\ file.rows[1].Product = <<"C">> /\ file.rows[2].Product = <<"B">>
    /\ TopProducts(kb) = {<<"B">>, <<"C">>}
    /\ kb.best_selling_product = <<"B">>

\* C7: a file with a malformed row (a Date that is no date, a negative
\* Sales, an age or satisfaction out of bounds) makes the build fail: no
\* index is returned.
C7_MalformedRowFailsBuild ==
    (pc # "build" /\ \E i \in 1..Len(file.rows) : Malformed(file.rows[i])) =>
        (pc = "stopped" /\ kb = None)

(***************************************************************************)
(* Properties of the Streamlit script (Spec)                               *)
(***************************************************************************)
EmptyFile == file.found /\ Len(file.rows) = 0

HasHistory == "ui_messages" \in DOMAIN session_state

ui_messages == session_state["ui_messages"]

RetrieveEvent(question) == [op |-> "custom_retriever", question |-> question]
InvokeEvent(question) == [op |-> "invoke", question |-> question]

\* how often the run has called the generator for the question
Invocations(question) ==
    Cardinality({k \in 1..Len(run_log) : run_log[k] = InvokeEvent(question)})

\* the generator was called exactly once for the question, after the
\* retriever was called for it
InvokedOnceAfterRetrieval(question) ==
    /\ Invocations(question) = 1
    /\ \E k \in 1..Len(run_log) :
          /\ run_log[k] = InvokeEvent(question)
          /\ \E j \in 1..(k - 1) : run_log[j] = RetrieveEvent(question)

RECURSIVE EvalLogUpTo(_)
\* the log of an evaluation loop that has called the generator for the
\* first m test cases
EvalLogUpTo(m) ==
    IF m = 0 THEN <<>>
    ELSE EvalLogUpTo(m - 1)
         \o <<RetrieveEvent(EvalQuestions[m]), InvokeEvent(EvalQuestions[m])>>

ChatRunDone == pc = "idle" /\ page = "chat" /\ prompt # <<>>
EvalRunDone == pc = "idle" /\ page = "evaluation" /\ run_log # <<>>

C8_ExactlyOneInvokePerQuestionAndTestCase ==
    /\ ChatRunDone => InvokedOnceAfterRetrieval(prompt)
    /\ EvalRunDone =>
          \A i \in 1..Len(EvalQuestions) : InvokedOnceAfterRetrieval(EvalQuestions[i])

\* C8, amended: the generator is never called twice for a question in one
\* run; a chat run calls it exactly once for the submitted question, right
\* after the retrieval, whether the call returns or raises; an evaluation
\* run calls it once per test case, each call right after that test case's
\* retrieval, for all test cases when no call raises and for the test cases
\* up to and including the first one whose call raises otherwise (the test
\* cases after it are never sent).
C8_OneInvokeNoRetryEvalStopsAtFailure ==
    /\ \A k \in 1..Len(run_log) :
          run_log[k].op = "invoke" => Invocations(run_log[k].question) = 1
    /\ ChatRunDone => run_log = <<RetrieveEvent(prompt), InvokeEvent(prompt)>>
    /\ EvalRunDone =>
          run_log = EvalLogUpTo(IF st_errors = <<>> THEN Len(EvalQuestions)
                                ELSE Len(results) + 1)

C8_Witness ==
    /\ EvalRunDone
    /\ st_errors # <<>>
    /\ Len(results) = 1
    /\ Len(run_log) = 4

\* C9: the index is never changed after load_and_process_data returned it:
\* whenever kb is bound, in any run and at any point of it, it is the value
\* the builder returned for the file, and so is the cached value; in
\* particular after custom_retriever was called on it.
C9_IndexNeverMutated ==
    /\ kb # None =>
          /\ load_and_process_data(file).returned
          /\ kb = load_and_process_data(file).stats
    /\ data_cache # None => data_cache = load_and_process_data(file)

C9_Witness ==
    /\ pc = "chat_invoke"
    /\ Triggered("trend", prompt)
    /\ kb # None
    /\ Len(kb.monthly_trend) > 6
    /\ HasHistory /\ Len(ui_messages) > 3

\* the history after a completed run: the greeting first, then user and
\* assistant messages in turn; after a chat run that answered a question
\* the last two messages are the question and the generator's response, or
\* the "Error: ..." message when the call raised
HistoryWellFormed ==
    (pc = "idle" /\ HasHistory) =>
        /\ ui_messages[1] = Message("assistant", Greeting)
        /\ Len(ui_messages) % 2 = 1
        /\ \A i \in 1..Len(ui_messages) :
              ui_messages[i].role = (IF i % 2 = 1 THEN "assistant" ELSE "user")
        /\ ChatRunDone =>
              LET n == Len(ui_messages)
              IN  /\ n >= 3
                  /\ ui_messages[n - 1] = Message("user", prompt)
                  /\ IF st_errors = <<>>
                     THEN ui_messages[n].content \in GeneratorAnswers(context_str)
                     ELSE /\ ui_messages[n].content = st_errors[Len(st_errors)]
                          /\ StartsWith(ui_messages[n].content, <<"E","r","r","o","r",":"," ">>)

\* a step keeps the history it finds as a prefix, and adds at most one message
HistoryGrowsByAppending ==
    HasHistory =>
        /\ HasHistory'
        /\ Len(ui_messages') \in {Len(ui_messages), Len(ui_messages) + 1}
        /\ SubSeq(ui_messages', 1, Len(ui_messages)) = ui_messages

\* C10: after every completed script run the history starts with the one
\* assistant greeting and the roles alternate assistant, user, assistant,
\* ...; a submitted question adds one user message and then one assistant
\* message (the response, or "Error: ..." when the call raised); earlier
\* messages are never removed or changed.
C10_HistoryAlternates == []HistoryWellFormed /\ [][HistoryGrowsByAppending]_vars

C10_Witness ==
    /\ pc = "idle"
    /\ HasHistory
    /\ Len(ui_messages) = 5
    /\ StartsWith(ui_messages[3].content, <<"E","r","r","o","r",":"," ">>)
    /\ ui_messages[5].content = context_str
    /\ Len(context_str) > 0

====
